---- MODULE Spec2Model ----
(***************************************************************************)
(* Model of genrepo's generation planning and write engine                 *)
(* (src/src/genrepo/generator.py, config.py, cli/app.py).                  *)
(*                                                                         *)
(* Text is modelled as sequences of one-character strings so that the      *)
(* name-casing transforms (to_snake, to_pascal) are computed, not assumed. *)
(* File contents are sequences of strings.  The output directory is a      *)
(* function from the names of the files that exist to their contents.      *)
(***************************************************************************)
EXTENDS Integers, Sequences, FiniteSets, TLC

VARIABLES
    cfg,        \* the loaded GenrepoConfig (immutable once loaded)
    fs,         \* output directory: file name -> content, for existing files
    dirExists,  \* whether the output directory itself exists
    pc,         \* position of the running generate_from_config, or "idle"
    force,      \* force argument of the current / last generate_from_config
    fs0,        \* file system at the start of the current / last invocation
    models,     \* local `models` of generate_from_config (resolved list)
    idx,        \* loop index over `models`
    cur,        \* arguments of the write() call in progress
    written,    \* local `written`, the returned list of paths
    targets,    \* history: the write() calls made by the invocation, in order
    resolved,   \* history: whether ModelResolver.resolve was invoked
    result,     \* "none" | "ok" | "error" | "interrupted" : the last invocation
    chained,    \* history: the invocation started right after a successful one
    planOut,    \* last PlanReport returned by plan_from_config (or NoPlan)
    planFs,     \* output-directory state seen by that plan_from_config
    call,       \* a validator / loader / resolver call examined on its own
    ret,        \* what that call returned or raised, once it has run
    race        \* two invocations inside write() on one path, or NoRace

vars == <<cfg, fs, dirExists, pc, force, fs0, models, idx, cur, written,
          targets, resolved, result, chained, planOut, planFs, call, ret, race>>

----------------------------------------------------------------------------
(* Characters and strings *)

LowerOf == ("U" :> "u") @@ ("B" :> "b") @@ ("F" :> "f") @@ ("A" :> "a")
UpperOf == ("u" :> "U") @@ ("b" :> "B") @@ ("f" :> "F") @@ ("a" :> "A")

isupper(ch) == ch \in DOMAIN LowerOf
lower(ch) == IF ch \in DOMAIN LowerOf THEN LowerOf[ch] ELSE ch
upper(ch) == IF ch \in DOMAIN UpperOf THEN UpperOf[ch] ELSE ch

\* ASCII codes of the characters used, for the ordering of sorted()
Ord == ("*" :> 42) @@ ("-" :> 45) @@ ("." :> 46) @@ (":" :> 58)
       @@ ("A" :> 65) @@ ("B" :> 66) @@ ("F" :> 70) @@ ("U" :> 85)
       @@ ("_" :> 95) @@ ("a" :> 97) @@ ("b" :> 98) @@ ("e" :> 101)
       @@ ("f" :> 102) @@ ("i" :> 105) @@ ("l" :> 108) @@ ("n" :> 110)
       @@ ("o" :> 111) @@ ("p" :> 112) @@ ("r" :> 114) @@ ("s" :> 115)
       @@ ("t" :> 116) @@ ("u" :> 117) @@ ("y" :> 121)

RECURSIVE StrLess(_, _)
StrLess(a, b) ==
    IF b = <<>> THEN FALSE
    ELSE IF a = <<>> THEN TRUE
    ELSE IF Head(a) = Head(b) THEN StrLess(Tail(a), Tail(b))
    ELSE Ord[Head(a)] < Ord[Head(b)]

StartsWith(s, p) == Len(s) >= Len(p) /\ SubSeq(s, 1, Len(p)) = p

RECURSIVE LowerAll(_)
LowerAll(s) == IF s = <<>> THEN <<>> ELSE <<lower(Head(s))>> \o LowerAll(Tail(s))

\* str.capitalize(): first character upper-cased, the rest lower-cased
capitalize(p) == IF p = <<>> THEN <<>> ELSE <<upper(Head(p))>> \o LowerAll(Tail(p))

\* to_snake: "_" before every upper-case character but the first, all lowered
RECURSIVE SnakeFrom(_, _)
SnakeFrom(name, i) ==
    IF i > Len(name) THEN <<>>
    ELSE (IF isupper(name[i]) /\ i > 1 THEN <<"_">> ELSE <<>>)
         \o <<lower(name[i])>> \o SnakeFrom(name, i + 1)

to_snake(name) == SnakeFrom(name, 1)

\* snake.replace("-", "_").split("_") with the empty parts dropped
RECURSIVE SplitParts(_, _)
SplitParts(s, acc) ==
    IF s = <<>> THEN (IF acc = <<>> THEN <<>> ELSE <<acc>>)
    ELSE IF Head(s) \in {"_", "-"}
         THEN (IF acc = <<>> THEN <<>> ELSE <<acc>>) \o SplitParts(Tail(s), <<>>)
         ELSE SplitParts(Tail(s), Append(acc, Head(s)))

RECURSIVE JoinCap(_)
JoinCap(parts) ==
    IF parts = <<>> THEN <<>> ELSE capitalize(Head(parts)) \o JoinCap(Tail(parts))

to_pascal(snake) == JoinCap(SplitParts(snake, <<>>))

----------------------------------------------------------------------------
(* constants.py *)

CRUD_METHODS == <<"get", "get_or_raise", "list", "find_one", "create",
                  "update", "delete", "delete_by_id", "exists", "count">>

ORM_SQLMODEL == "sqlmodel"
ORM_SQLALCHEMY == "sqlalchemy"

TPL_BASE_SQLMODEL_SYNC == "base_repository_sqlmodel_sync.j2"
TPL_BASE_SQLMODEL_ASYNC == "base_repository_sqlmodel_async.j2"
TPL_BASE_SQLALCHEMY_SYNC == "base_repository_sqlalchemy_sync.j2"
TPL_BASE_SQLALCHEMY_ASYNC == "base_repository_sqlalchemy_async.j2"
TPL_STANDALONE_SQLMODEL == "repository_sqlmodel.j2"
TPL_STANDALONE_SQLALCHEMY == "repository_sqlalchemy.j2"
TPL_USER_STUB == "model_repository_user_stub.j2"
TPL_BASE_STUB == "repository_base_stub.j2"
TPL_STANDALONE_STUB == "repository_standalone_stub.j2"

UNSUPPORTED == "<ValueError: unsupported orm>"

----------------------------------------------------------------------------
(* Sequence helpers *)

Range(s) == {s[i] : i \in 1..Len(s)}

SelectIn(s, S) == SelectSeq(s, LAMBDA x : x \in S)

RECURSIVE IndexOf(_, _, _)
\* first position >= i of x in s, or 0
IndexOf(s, x, i) ==
    IF i > Len(s) THEN 0 ELSE IF s[i] = x THEN i ELSE IndexOf(s, x, i + 1)

BoolStr(b) == IF b THEN "True" ELSE "False"

----------------------------------------------------------------------------
(* config.py : model declarations *)

\* ModelConfig.validate_name: non-empty and starting with a letter
isalpha(ch) == ch \in DOMAIN Ord /\ (Ord[ch] \in 65..90 \/ Ord[ch] \in 97..122)

validate_name(v) == v # <<>> /\ isalpha(Head(v))

RECURSIVE DedupAppend_KeepsSentinels(_, _, _)
\* mutant: the loop does not skip the sentinels
DedupAppend_KeepsSentinels(v, res, seen) ==
    IF v = <<>> THEN res
    ELSE IF Head(v) \in seen
         THEN DedupAppend_KeepsSentinels(Tail(v), res, seen)
         ELSE DedupAppend_KeepsSentinels(Tail(v), Append(res, Head(v)),
                                         seen \cup {Head(v)})

RECURSIVE DedupAppend(_, _, _)
\* the loop of validate_methods: skip sentinels and tokens already seen
DedupAppend(v, res, seen) ==
    IF v = <<>> THEN res
    ELSE IF Head(v) \in {"all", "none"} \/ Head(v) \in seen
         THEN DedupAppend(Tail(v), res, seen)
         ELSE DedupAppend(Tail(v), Append(res, Head(v)), seen \cup {Head(v)})

\* mutant: the missing "get" is appended instead of inserted first
validate_methods_GetLast(v) ==
    IF v = <<>> \/ "none" \in Range(v) THEN <<>>
    ELSE LET start == IF "all" \in Range(v) THEN CRUD_METHODS ELSE <<>>
             res == DedupAppend(v, start, Range(start))
         IN IF ({"get_or_raise", "delete_by_id"} \cap Range(res) # {})
               /\ "get" \notin Range(res)
            THEN Append(res, "get")
            ELSE res

\* ModelConfig.validate_methods on a list of valid tokens
validate_methods(v) ==
    IF v = <<>> \/ "none" \in Range(v) THEN <<>>
    ELSE LET start == IF "all" \in Range(v) THEN CRUD_METHODS ELSE <<>>
             res == DedupAppend(v, start, Range(start))
         IN IF ({"get_or_raise", "delete_by_id"} \cap Range(res) # {})
               /\ "get" \notin Range(res)
            THEN <<"get">> \o res
            ELSE res

ModelConfig(name, import_path, id_field, id_type, methods, personalize) ==
    [name |-> name, import_path |-> import_path, id_field |-> id_field,
     id_type |-> id_type, methods |-> validate_methods(methods),
     personalize_methods |-> personalize]

\* import_path.split(":", 1): the parts before and after the first ":"
SplitImport(ip) ==
    LET k == IndexOf(ip, ":", 1)
    IN IF k = 0 THEN <<ip>>
       ELSE <<SubSeq(ip, 1, k - 1), SubSeq(ip, k + 1, Len(ip))>>

----------------------------------------------------------------------------
(* The configurations and the environment explored *)

NameUser == <<"U", "s", "e", "r">>
NameLowerUser == <<"u", "s", "e", "r">>
NameBase == <<"B", "a", "s", "e">>
NameAll == <<"A", "l", "l">>
NameLowerAll == <<"a", "l", "l">>

MUser == ModelConfig(NameUser, <<"app.models.user", ":">> \o NameUser,
                     "id", "int", <<"get", "list">>, <<>>)
MLowerUser == ModelConfig(NameLowerUser, <<"app.models.user", ":">> \o NameLowerUser,
                          "id", "int", <<"get", "list">>, <<>>)
MBase == ModelConfig(NameBase, <<"app.models.base", ":">> \o NameBase,
                     "pk", "str", <<"get">>, <<"archive">>)
MAll == ModelConfig(NameAll, <<"app.models">>, "id", "int", <<"all">>, <<>>)

\* what importlib.import_module + getattr can resolve in this environment
Importable == {MUser.import_path}

\* the *.py and other files of the discovery directory (a snapshot)
ModelsDirFiles == { <<"f", "o", "o", ".", "p", "y">>,
                    <<"u", "s", "e", "r", ".", "p", "y">>,
                    <<"_", "_", "i", "n", "i", "t", "_", "_", ".", "p", "y">> }

ModelVariants ==
    { [models |-> <<MUser>>, discover_all |-> FALSE, allow_missing_models |-> FALSE],
      [models |-> <<MUser, MLowerUser>>, discover_all |-> FALSE, allow_missing_models |-> TRUE],
      [models |-> <<MBase>>, discover_all |-> FALSE, allow_missing_models |-> TRUE],
      [models |-> <<MBase>>, discover_all |-> FALSE, allow_missing_models |-> FALSE],
      [models |-> <<MAll, MUser>>, discover_all |-> FALSE, allow_missing_models |-> FALSE],
      [models |-> <<>>, discover_all |-> TRUE, allow_missing_models |-> FALSE] }

BaseFilename == <<"b", "a", "s", "e", "_", "r", "e", "p", "o", "s", "i", "t", "o", "r", "y",
                  ".", "p", "y">>

\* GenrepoConfig with its field defaults (orm, async_mode, commit_strategy,
\* generation.base_filename, generation.base_class_name, generation.stub_only)
Configs ==
    { [orm |-> ORM_SQLMODEL, async_mode |-> FALSE, commit_strategy |-> "none",
       models |-> v.models, discover_all |-> v.discover_all,
       models_package |-> IF v.discover_all THEN "app.models" ELSE "",
       allow_missing_models |-> v.allow_missing_models,
       mode |-> m, base_filename |-> BaseFilename,
       base_class_name |-> "BaseRepository", overwrite_base |-> ob,
       stub_only |-> FALSE]
      : v \in ModelVariants, m \in {"standalone", "base", "combined"}, ob \in BOOLEAN }

----------------------------------------------------------------------------
(* generator.py : TemplateSelector, ModelResolver, rendering *)

standalone_template_SqlmodelOnly(c) ==
    IF c.stub_only THEN TPL_STANDALONE_STUB
    ELSE IF c.orm = ORM_SQLMODEL THEN TPL_STANDALONE_SQLMODEL
    ELSE UNSUPPORTED

standalone_template(c) ==
    IF c.stub_only THEN TPL_STANDALONE_STUB
    ELSE IF c.orm = ORM_SQLMODEL THEN TPL_STANDALONE_SQLMODEL
    ELSE IF c.orm = ORM_SQLALCHEMY THEN TPL_STANDALONE_SQLALCHEMY
    ELSE UNSUPPORTED

base_template(c) ==
    IF c.stub_only THEN TPL_BASE_STUB
    ELSE IF c.orm = ORM_SQLMODEL
         THEN (IF c.async_mode THEN TPL_BASE_SQLMODEL_ASYNC ELSE TPL_BASE_SQLMODEL_SYNC)
    ELSE IF c.orm = ORM_SQLALCHEMY
         THEN (IF c.async_mode THEN TPL_BASE_SQLALCHEMY_ASYNC ELSE TPL_BASE_SQLALCHEMY_SYNC)
    ELSE UNSUPPORTED

IsWildcardName(name) == LowerAll(name) \in {<<"a", "l", "l">>, <<"*">>}

RECURSIVE LastWildcard(_)
\* the wildcard left by the first loop of resolve: the last one met, or <<>>
LastWildcard(ms) ==
    IF ms = <<>> THEN <<>>
    ELSE IF IsWildcardName(ms[Len(ms)].name) THEN <<ms[Len(ms)]>>
    ELSE LastWildcard(SubSeq(ms, 1, Len(ms) - 1))

RECURSIVE SortNames(_)
\* sorted(base_dir.glob("*.py")): ascending by file name
SortNames(S) ==
    IF S = {} THEN <<>>
    ELSE LET least == CHOOSE x \in S : \A y \in S \ {x} : StrLess(x, y)
         IN <<least>> \o SortNames(S \ {least})

DotPy == <<".", "p", "y">>

EndsWith(s, p) == Len(s) >= Len(p) /\ SubSeq(s, Len(s) - Len(p) + 1, Len(s)) = p

RECURSIVE Discover_NoExplicitCheck(_, _, _, _)
\* mutant: discovery does not skip the classes declared explicitly
Discover_NoExplicitCheck(files, explicitNames, pkg, defaults) ==
    IF files = <<>> THEN <<>>
    ELSE LET py == Head(files)
             stem == SubSeq(py, 1, Len(py) - Len(DotPy))
             cls == to_pascal(stem)
             rest == Discover_NoExplicitCheck(Tail(files), explicitNames, pkg, defaults)
         IN IF StartsWith(py, <<"_", "_">>) THEN rest
            ELSE <<ModelConfig(cls, <<pkg, ".">> \o stem \o <<":">> \o cls,
                               defaults.id_field, defaults.id_type,
                               defaults.methods, defaults.personalize_methods)>>
                 \o rest

RECURSIVE Discover(_, _, _, _)
\* the discovery loop of resolve over the sorted files
Discover(files, explicitNames, pkg, defaults) ==
    IF files = <<>> THEN <<>>
    ELSE LET py == Head(files)
             stem == SubSeq(py, 1, Len(py) - Len(DotPy))
             cls == to_pascal(stem)
             rest == Discover(Tail(files), explicitNames, pkg, defaults)
         IN IF StartsWith(py, <<"_", "_">>) \/ cls \in explicitNames THEN rest
            ELSE <<ModelConfig(cls, <<pkg, ".">> \o stem \o <<":">> \o cls,
                               defaults.id_field, defaults.id_type,
                               defaults.methods, defaults.personalize_methods)>>
                 \o rest

\* base_dir.glob("*.py") over a directory whose entries come in the order
\* `listing`
glob_py(listing) == SelectSeq(listing, LAMBDA f : EndsWith(f, DotPy))

\* mutant: the files are taken in enumeration order
sorted_AsEnumerated(files) == files

\* sorted(...) of distinct file names
sorted(files) == SortNames(Range(files))

\* ModelResolver.resolve on a discovery directory enumerated as `listing`:
\* [ok, models]; ok = FALSE when it raises
ResolveIn(c, listing) ==
    LET explicit == SelectSeq(c.models, LAMBDA m : ~IsWildcardName(m.name))
        wild == LastWildcard(c.models)
        discover == c.discover_all \/ wild # <<>>
        pkg == IF c.models_package # "" THEN c.models_package
               ELSE IF wild # <<>> /\ ":" \notin Range(wild[1].import_path)
                    THEN wild[1].import_path[1]
                    ELSE "app.models"
        defaults == IF wild # <<>> THEN wild[1]
                    ELSE [id_field |-> "id", id_type |-> "int", methods |-> <<"all">>,
                          personalize_methods |-> <<>>]
        files == sorted(glob_py(listing))
        found == Discover(files, {explicit[i].name : i \in 1..Len(explicit)}, pkg, defaults)
    IN IF discover
       THEN [ok |-> \A i \in 1..Len(found) : validate_name(found[i].name),
             models |-> explicit \o found]
       ELSE [ok |-> c.allow_missing_models
                    \/ \A i \in 1..Len(explicit) : explicit[i].import_path \in Importable,
             models |-> explicit]

\* ModelResolver.resolve in the project of the state machine
resolve(c) == ResolveIn(c, SortNames(ModelsDirFiles))

RepoSuffix == <<"_", "r", "e", "p", "o", "s", "i", "t", "o", "r", "y", ".", "p", "y">>

\* f"{to_snake(model.name)}_repository.py"
RepoFileName(model) == to_snake(model.name) \o RepoSuffix

\* tpl.render(...) of _render_repo: the template with the variables bound to it
RenderRepo(c, model, template_name) ==
    LET parts == SplitImport(model.import_path)
    IN <<template_name, "model_name=">> \o model.name
       \o <<"model_module=">> \o parts[1]
       \o <<"model_class=">> \o parts[2]
       \o <<"id_field=", model.id_field, "id_type=", model.id_type, "methods=">>
       \o SelectIn(CRUD_METHODS, Range(model.methods))
       \o <<"personalize_methods=">> \o model.personalize_methods
       \o <<"commit_strategy=", c.commit_strategy, "is_async=", BoolStr(c.async_mode)>>

\* tpl.render(...) of the base file
RenderBase(c) ==
    <<base_template(c), "base_class_name=", c.base_class_name,
      "commit_strategy=", c.commit_strategy>>

RECURSIVE LastIndexOf(_, _, _)
\* last position <= i of x in s, or 0
LastIndexOf(s, x, i) ==
    IF i = 0 THEN 0 ELSE IF s[i] = x THEN i ELSE LastIndexOf(s, x, i - 1)

\* base_filename.rsplit(".", 1)[0]
BaseModule(c) ==
    LET k == LastIndexOf(c.base_filename, ".", Len(c.base_filename))
    IN IF k = 0 THEN c.base_filename ELSE SubSeq(c.base_filename, 1, k - 1)

\* stub_tpl.render(...) of the combined-mode user stub
RenderStub(c, model) ==
    LET parts == SplitImport(model.import_path)
    IN <<TPL_USER_STUB, "model_name=">> \o model.name
       \o <<"model_module=">> \o parts[1]
       \o <<"model_class=">> \o parts[2]
       \o <<"base_module=">> \o BaseModule(c)
       \o <<"base_class_name=", c.base_class_name,
            "id_field=", model.id_field, "id_type=", model.id_type,
            "personalize_methods=">> \o model.personalize_methods
       \o <<"orm=", c.orm, "is_async=", BoolStr(c.async_mode)>>

----------------------------------------------------------------------------
(* The output directory *)

InitFile == <<"_", "_", "i", "n", "i", "t", "_", "_", ".", "p", "y">>

\* a file whose bytes are not valid UTF-8: it exists, read_text raises
UNREADABLE == <<"<bytes that are not UTF-8>">>
\* a file as left by a manual edit
EDITED == <<"# MUTATED">>

EmptyDir == <<>>

exists(fsys, path) == path \in DOMAIN fsys

\* Path.write_text: create or truncate, then write
write_text(fsys, path, content) == (path :> content) @@ fsys

\* Path.replace: rename src over dst
replace(fsys, src, dst) ==
    [q \in (DOMAIN fsys \ {src}) \cup {dst} |-> IF q = dst THEN fsys[src] ELSE fsys[q]]

unlink(fsys, path) == [q \in DOMAIN fsys \ {path} |-> fsys[q]]

\* mutant: the content is written to the target itself
TmpPath_InPlace(path) == path

\* path.with_suffix(path.suffix + ".tmp")
TmpPath(path) == path \o <<".", "t", "m", "p">>

----------------------------------------------------------------------------
(* generator.py : _classify_file, PlanReport, plan_from_config *)

FilePlan(path, ex, would_write, overwrite, reason) ==
    [path |-> path, exists |-> ex, would_write |-> would_write,
     overwrite |-> overwrite, reason |-> reason]

\* mutant: an unreadable file is taken for an up-to-date one
_classify_file_UnreadableUpToDate(fsys, path, content, overwrite) ==
    IF ~exists(fsys, path) THEN FilePlan(path, FALSE, TRUE, overwrite, "create")
    ELSE IF ~overwrite THEN FilePlan(path, TRUE, FALSE, FALSE, "exists-no-overwrite")
    ELSE IF fsys[path] = UNREADABLE \/ fsys[path] = content
         THEN FilePlan(path, TRUE, FALSE, TRUE, "up-to-date")
    ELSE FilePlan(path, TRUE, TRUE, TRUE, "overwrite")

\* mutant: a skipped file is still counted as a write
_classify_file_SkipCountsAsWrite(fsys, path, content, overwrite) ==
    IF ~exists(fsys, path) THEN FilePlan(path, FALSE, TRUE, overwrite, "create")
    ELSE IF ~overwrite THEN FilePlan(path, TRUE, TRUE, FALSE, "exists-no-overwrite")
    ELSE IF fsys[path] = UNREADABLE THEN FilePlan(path, TRUE, TRUE, TRUE, "overwrite")
    ELSE IF fsys[path] = content THEN FilePlan(path, TRUE, FALSE, TRUE, "up-to-date")
    ELSE FilePlan(path, TRUE, TRUE, TRUE, "overwrite")

_classify_file(fsys, path, content, overwrite) ==
    IF ~exists(fsys, path) THEN FilePlan(path, FALSE, TRUE, overwrite, "create")
    ELSE IF ~overwrite THEN FilePlan(path, TRUE, FALSE, FALSE, "exists-no-overwrite")
    ELSE IF fsys[path] = UNREADABLE THEN FilePlan(path, TRUE, TRUE, TRUE, "overwrite")
    ELSE IF fsys[path] = content THEN FilePlan(path, TRUE, FALSE, TRUE, "up-to-date")
    ELSE FilePlan(path, TRUE, TRUE, TRUE, "overwrite")

\* PlanReport.to_write
to_write(files) == SelectSeq(files, LAMBDA f : f.would_write)

\* PlanReport.up_to_date
up_to_date(files) ==
    SelectSeq(files, LAMBDA f : ~f.would_write /\ f.exists /\ f.reason = "up-to-date")

\* mutant: standalone files are overwritten whatever force is
ModelTarget_ForceIgnored(c, model, f) ==
    IF c.mode = "standalone"
    THEN [kind |-> "model", path |-> RepoFileName(model),
          content |-> RenderRepo(c, model, standalone_template(c)), overwrite |-> TRUE]
    ELSE [kind |-> "model", path |-> RepoFileName(model),
          content |-> RenderStub(c, model), overwrite |-> FALSE]

\* the write() call generate_from_config makes for one resolved model
ModelTarget(c, model, f) ==
    IF c.mode = "standalone"
    THEN [kind |-> "model", path |-> RepoFileName(model),
          content |-> RenderRepo(c, model, standalone_template(c)), overwrite |-> f]
    ELSE [kind |-> "model", path |-> RepoFileName(model),
          content |-> RenderStub(c, model), overwrite |-> FALSE]

\* mutant: the base file is always overwritten
BaseTarget_OverwriteAlways(c) ==
    [kind |-> "base", path |-> c.base_filename, content |-> RenderBase(c),
     overwrite |-> TRUE]

BaseTarget(c) ==
    [kind |-> "base", path |-> c.base_filename, content |-> RenderBase(c),
     overwrite |-> c.overwrite_base]

\* the values above, tabulated once per configuration
ResolveOf == [c \in Configs |-> resolve(c)]

BaseTargetOf == [c \in Configs |-> BaseTarget(c)]

ModelTargetsOf ==
    [c \in Configs |->
       [f \in BOOLEAN |->
          [i \in 1..Len(ResolveOf[c].models) |-> ModelTarget(c, ResolveOf[c].models[i], f)]]]

Classify(fsys, t) == _classify_file(fsys, t.path, t.content, t.overwrite)

\* plan_from_config: [ok, files]; ok = FALSE when it raises
plan_from_config(c, fsys, f) ==
    LET basePlans == IF c.mode \in {"base", "combined"}
                     THEN <<Classify(fsys, BaseTargetOf[c])>> ELSE <<>>
        r == ResolveOf[c]
    IN IF c.mode = "base" THEN [ok |-> TRUE, files |-> basePlans]
       ELSE IF ~r.ok THEN [ok |-> FALSE, files |-> <<>>]
       ELSE [ok |-> TRUE,
             files |-> basePlans
                       \o [i \in 1..Len(r.models) |->
                             Classify(fsys, ModelTargetsOf[c][f][i])]]

\* cli generate --dry-run / --check: the exit code
PlanExitCode(p, check) ==
    IF ~p.ok THEN 1
    ELSE IF check THEN (IF to_write(p.files) # <<>> THEN 1 ELSE 0)
    ELSE 0

----------------------------------------------------------------------------
(* State machine: one project directory, the user editing files and the    *)
(* CLI `generate` command run with or without --dry-run / --check.         *)

NoCur == [kind |-> "none", path |-> <<>>, content |-> <<>>, overwrite |-> FALSE]

NoPlan == [valid |-> FALSE, force |-> FALSE, check |-> FALSE, ok |-> FALSE,
           files |-> <<>>, exit |-> 0]

\* the files of the output directory that generation of configuration c names
TargetPaths(c) ==
    (IF c.mode \in {"base", "combined"} THEN {c.base_filename} ELSE {})
    \cup (IF c.mode = "base" THEN {}
          ELSE {ModelTargetsOf[c][FALSE][i].path : i \in 1..Len(ResolveOf[c].models)})

EditablePathsOf == [c \in Configs |-> {InitFile} \cup TargetPaths(c)]

\* no pair of concurrent invocations under examination
NoRace == <<>>

\* no call under examination
NoCall == [fn |-> "none"]

NoRet == [done |-> FALSE]

Init ==
    /\ call = NoCall
    /\ ret = NoRet
    /\ cfg \in Configs
    /\ fs = EmptyDir
    /\ dirExists = FALSE
    /\ pc = "idle"
    /\ force = FALSE
    /\ fs0 = EmptyDir
    /\ models = <<>>
    /\ idx = 0
    /\ cur = NoCur
    /\ written = <<>>
    /\ targets = <<>>
    /\ resolved = FALSE
    /\ result = "none"
    /\ chained = FALSE
    /\ planOut = NoPlan
    /\ planFs = EmptyDir
    /\ race = NoRace

ForgetHistory ==
    /\ force' = FALSE
    /\ fs0' = EmptyDir
    /\ models' = <<>>
    /\ idx' = 0
    /\ written' = <<>>
    /\ targets' = <<>>
    /\ resolved' = FALSE
    /\ result' = "none"
    /\ chained' = FALSE
    /\ planOut' = NoPlan
    /\ planFs' = EmptyDir

\* the user writes a file of the output directory by hand
UserEdit(path, content) ==
    /\ pc = "idle"
    /\ ~(exists(fs, path) /\ fs[path] = content)
    /\ fs' = write_text(fs, path, content)
    /\ dirExists' = TRUE
    /\ ForgetHistory
    /\ UNCHANGED <<race, call, ret, cfg, pc, cur>>

\* the user deletes a file of the output directory
UserDelete(path) ==
    /\ pc = "idle"
    /\ exists(fs, path)
    /\ fs' = unlink(fs, path)
    /\ ForgetHistory
    /\ UNCHANGED <<race, call, ret, cfg, dirExists, pc, cur>>

\* mutant: the plan path calls ensure_package like the executor
Plan_EnsuresPackage(f, check) ==
    /\ pc = "idle"
    /\ LET p == plan_from_config(cfg, fs, f)
       IN planOut' = [valid |-> TRUE, force |-> f, check |-> check, ok |-> p.ok,
                      files |-> p.files, exit |-> PlanExitCode(p, check)]
    /\ planFs' = fs
    /\ dirExists' = TRUE
    /\ fs' = IF exists(fs, InitFile) THEN fs ELSE write_text(fs, InitFile, <<>>)
    /\ UNCHANGED <<race, call, ret, cfg, pc, force, fs0, models, idx, cur, written,
                   targets, resolved, result, chained>>

\* cli generate --dry-run / --check (app.py) around plan_from_config
Plan(f, check) ==
    /\ pc = "idle"
    /\ LET p == plan_from_config(cfg, fs, f)
       IN planOut' = [valid |-> TRUE, force |-> f, check |-> check, ok |-> p.ok,
                      files |-> p.files, exit |-> PlanExitCode(p, check)]
    /\ planFs' = fs
    /\ UNCHANGED <<race, call, ret, cfg, fs, dirExists, pc, force, fs0, models, idx, cur, written,
                   targets, resolved, result, chained>>

\* generate_from_config is entered: written = []
StartGenerate(f) ==
    /\ pc = "idle"
    /\ pc' = "ensure_package"
    /\ force' = f
    /\ fs0' = fs
    /\ models' = <<>>
    /\ idx' = 0
    /\ cur' = NoCur
    /\ written' = <<>>
    /\ targets' = <<>>
    /\ resolved' = FALSE
    /\ result' = "none"
    /\ chained' = (result = "ok")
    /\ IF planOut.valid /\ planFs = fs /\ planOut.force = f
       THEN UNCHANGED <<planOut, planFs>>
       ELSE planOut' = NoPlan /\ planFs' = EmptyDir
    /\ UNCHANGED <<race, call, ret, cfg, fs, dirExists>>

\* mutant: the marker is written whether or not it exists
EnsurePackage_Rewrites ==
    /\ pc = "ensure_package"
    /\ dirExists' = TRUE
    /\ fs' = write_text(fs, InitFile, <<>>)
    /\ pc' = IF cfg.mode \in {"base", "combined"} THEN "write_base" ELSE "resolve"
    /\ UNCHANGED <<race, call, ret, cfg, force, fs0, models, idx, cur, written, targets, resolved,
                   result, chained, planOut, planFs>>

\* ensure_package(out_dir)
EnsurePackage ==
    /\ pc = "ensure_package"
    /\ dirExists' = TRUE
    /\ fs' = IF exists(fs, InitFile) THEN fs ELSE write_text(fs, InitFile, <<>>)
    /\ pc' = IF cfg.mode \in {"base", "combined"} THEN "write_base" ELSE "resolve"
    /\ UNCHANGED <<race, call, ret, cfg, force, fs0, models, idx, cur, written, targets, resolved,
                   result, chained, planOut, planFs>>

\* write(): the early return, or tmp.write_text(content)
WriteSkips(fsys, t) == exists(fsys, t.path) /\ ~t.overwrite

\* mutant: base mode does not return after the base file
PcAfterBase_NoReturn == "resolve"

\* if mode == "base": return written
PcAfterBase == IF cfg.mode = "base" THEN "idle" ELSE "resolve"

PcAfterModel(i, ms) == IF i > Len(ms) THEN "idle" ELSE "write_model"

ResultAt(p) == IF p = "idle" THEN "ok" ELSE "none"

\* write(base_path, base_content, overwrite=overwrite_base) up to tmp.write_text
WriteBase ==
    /\ pc = "write_base"
    /\ LET t == BaseTargetOf[cfg]
       IN /\ targets' = Append(targets, t)
          /\ IF WriteSkips(fs, t)
             THEN /\ pc' = PcAfterBase
                  /\ result' = ResultAt(PcAfterBase)
                  /\ UNCHANGED <<fs, cur>>
             ELSE /\ fs' = write_text(fs, TmpPath(t.path), t.content)
                  /\ cur' = t
                  /\ pc' = "replace_base"
                  /\ UNCHANGED result
    /\ UNCHANGED <<race, call, ret, cfg, dirExists, force, fs0, models, idx, written, resolved,
                   chained, planOut, planFs>>

\* tmp.replace(path); written.append(base_path)
ReplaceBase ==
    /\ pc = "replace_base"
    /\ fs' = replace(fs, TmpPath(cur.path), cur.path)
    /\ written' = Append(written, cur.path)
    /\ cur' = NoCur
    /\ pc' = PcAfterBase
    /\ result' = ResultAt(PcAfterBase)
    /\ UNCHANGED <<race, call, ret, cfg, dirExists, force, fs0, models, idx, targets, resolved,
                   chained, planOut, planFs>>

\* models = ModelResolver.resolve(cfg, project_root)
Resolve ==
    /\ pc = "resolve"
    /\ resolved' = TRUE
    /\ LET r == ResolveOf[cfg]
       IN IF r.ok
          THEN /\ models' = r.models
               /\ idx' = 1
               /\ pc' = PcAfterModel(1, r.models)
               /\ result' = ResultAt(PcAfterModel(1, r.models))
          ELSE /\ pc' = "idle"
               /\ result' = "error"
               /\ UNCHANGED <<models, idx>>
    /\ UNCHANGED <<race, call, ret, cfg, fs, dirExists, force, fs0, cur, written, targets,
                   chained, planOut, planFs>>

\* one iteration of the per-model loop up to tmp.write_text
WriteModel ==
    /\ pc = "write_model"
    /\ LET t == ModelTarget(cfg, models[idx], force)
       IN /\ targets' = Append(targets, t)
          /\ IF WriteSkips(fs, t)
             THEN /\ idx' = idx + 1
                  /\ pc' = PcAfterModel(idx + 1, models)
                  /\ result' = ResultAt(PcAfterModel(idx + 1, models))
                  /\ UNCHANGED <<fs, cur>>
             ELSE /\ fs' = write_text(fs, TmpPath(t.path), t.content)
                  /\ cur' = t
                  /\ pc' = "replace_model"
                  /\ UNCHANGED <<idx, result>>
    /\ UNCHANGED <<race, call, ret, cfg, dirExists, force, fs0, models, written, resolved,
                   chained, planOut, planFs>>

\* tmp.replace(path); written.append(target)
ReplaceModel ==
    /\ pc = "replace_model"
    /\ fs' = replace(fs, TmpPath(cur.path), cur.path)
    /\ written' = Append(written, cur.path)
    /\ cur' = NoCur
    /\ idx' = idx + 1
    /\ pc' = PcAfterModel(idx + 1, models)
    /\ result' = ResultAt(PcAfterModel(idx + 1, models))
    /\ UNCHANGED <<race, call, ret, cfg, dirExists, force, fs0, models, targets, resolved,
                   chained, planOut, planFs>>

Next ==
    \/ \E path \in EditablePathsOf[cfg], content \in {EDITED, UNREADABLE} :
          UserEdit(path, content)
    \/ \E path \in EditablePathsOf[cfg] : UserDelete(path)
    \/ \E f \in BOOLEAN, check \in BOOLEAN : Plan(f, check)
    \/ \E f \in BOOLEAN : StartGenerate(f)
    \/ EnsurePackage
    \/ WriteBase
    \/ ReplaceBase
    \/ Resolve
    \/ WriteModel
    \/ ReplaceModel

Spec == Init /\ [][Next]_vars

----------------------------------------------------------------------------
(* Faults: the invocation is interrupted, or a file-system call raises.    *)
(* generate_from_config has no try/except: either one ends the invocation  *)
(* where it stands and nothing is cleaned up.                              *)

\* chunks of a file that an unfinished write_text can leave behind
MaxPartial == 1

Min(a, b) == IF a < b THEN a ELSE b

\* contents of a file opened (truncated) by write_text and not completed
Partials(content) ==
    {SubSeq(content, 1, k) : k \in 0..Min(MaxPartial, Len(content) - 1)}

\* the write() call the invocation is at, when it is at one
CallAt ==
    IF pc = "write_base" THEN BaseTargetOf[cfg]
    ELSE IF pc = "write_model" THEN ModelTarget(cfg, models[idx], force)
    ELSE NoCur

\* the states [fs, dirExists] a step can leave behind when it is cut short
\* (started = FALSE: before the step had any effect)
CutShort(started) ==
    IF ~started THEN {[fs |-> fs, dirExists |-> dirExists]}
    ELSE IF pc = "ensure_package"
         \* dir_path.mkdir done, init_file not created
         THEN {[fs |-> fs, dirExists |-> TRUE]}
    ELSE IF pc \in {"write_base", "write_model"} /\ ~WriteSkips(fs, CallAt)
         \* tmp.write_text opened the temporary file and wrote part of it
         THEN {[fs |-> write_text(fs, TmpPath(CallAt.path), part), dirExists |-> dirExists]
                 : part \in Partials(CallAt.content)}
    ELSE {[fs |-> fs, dirExists |-> dirExists]}

\* the invocation ends here: the locals are kept as history
Ends(res, out, started) ==
    /\ pc' = "idle"
    /\ result' = res
    /\ fs' = out.fs
    /\ dirExists' = out.dirExists
    /\ cur' = NoCur
    /\ targets' = IF started /\ CallAt # NoCur THEN Append(targets, CallAt) ELSE targets
    /\ UNCHANGED <<race, call, ret, cfg, force, fs0, models, idx, written, resolved, chained,
                   planOut, planFs>>

\* the process is interrupted (signal, power loss) at or inside the current step
Interrupt ==
    /\ pc # "idle"
    /\ \E started \in BOOLEAN : \E out \in CutShort(started) : Ends("interrupted", out, started)

\* mutant: a failed invocation puts back the files it found
FsError_Rollback ==
    /\ pc \in {"ensure_package", "write_base", "write_model",
               "replace_base", "replace_model"}
    /\ ~WriteSkips(fs, CallAt)
    /\ Ends("error", [fs |-> fs0, dirExists |-> dirExists], TRUE)

\* mkdir, write_text or replace raises OSError, which leaves write() and
\* generate_from_config
FsError ==
    /\ pc \in {"ensure_package", "write_base", "write_model",
               "replace_base", "replace_model"}
    /\ ~WriteSkips(fs, CallAt)
    /\ \E started \in BOOLEAN : \E out \in CutShort(started) : Ends("error", out, started)

NextFaults ==
    \/ \E path \in EditablePathsOf[cfg] : UserEdit(path, EDITED)
    \/ UserDelete(InitFile)
    \/ \E f \in BOOLEAN : StartGenerate(f)
    \/ EnsurePackage
    \/ WriteBase
    \/ ReplaceBase
    \/ Resolve
    \/ WriteModel
    \/ ReplaceModel
    \/ Interrupt
    \/ FsError

SpecFaults == Init /\ [][NextFaults]_vars

----------------------------------------------------------------------------
(* The validators, the loader and the resolver, each applied on its own to  *)
(* inputs drawn from bounded sets.                                          *)

\* the variables of the generate state machine
machine == <<cfg, fs, dirExists, pc, force, fs0, models, idx, cur, written,
             targets, resolved, result, chained, planOut, planFs, race>>

\* the Literal type CrudMethod: the vocabulary and the two sentinels
CrudMethod == Range(CRUD_METHODS) \cup {"all", "none"}

\* longest `methods` list drawn
MaxTokens == 3

Tokens == CrudMethod \cup {"bogus"}

TokenLists == UNION {[1..n -> Tokens] : n \in 0..MaxTokens}

Raised(error) == [done |-> TRUE, ok |-> FALSE, error |-> error, value |-> <<>>]

Returned(value) == [done |-> TRUE, ok |-> TRUE, error |-> <<>>, value |-> value]

\* the `methods` field of ModelConfig: the Literal check on every token, then
\* the validate_methods validator
MethodsField(v) ==
    IF \E i \in 1..Len(v) : v[i] \notin CrudMethod
    THEN Raised(<<"invalid method">>)
    ELSE Returned(validate_methods(v))

ApplyValidateMethods ==
    /\ call.fn = "validate_methods"
    /\ ~ret.done
    /\ ret' = MethodsField(call.arg)
    /\ UNCHANGED <<call, machine>>

\* ModelConfig.validate_import_path: without ":" accepted as it is, with ":"
\* both sides of the first one must be non-empty
validate_import_path(v) ==
    IF ":" \notin Range(v) THEN TRUE
    ELSE SplitImport(v)[1] # <<>> /\ SplitImport(v)[2] # <<>>

\* a `models` item as written in the document
Decl(name, import_path, id_field, id_type, methods) ==
    [name |-> name, import_path |-> import_path, id_field |-> id_field,
     id_type |-> id_type, methods |-> methods, personalize_methods |-> <<>>]

DUser == Decl(NameUser, <<"app.models.user", ":">> \o NameUser, "id", "int",
              <<"get", "list">>)
\* same name as DUser, every other field different
DUserTwin == Decl(NameUser, <<"app.models.account", ":">> \o NameUser, "uid", "str",
                  <<"count">>)
DLowerUser == Decl(NameLowerUser, <<"app.models.user", ":">> \o NameLowerUser,
                   "id", "int", <<"get", "list">>)
DAll == Decl(NameAll, <<"app.models">>, "id", "int", <<"all">>)
\* a name that does not start with a letter
DDigit == Decl(<<"1", "x">>, <<"app.models.x", ":">> \o NameUser, "id", "int",
               <<"get">>)

\* a named model whose import_path has no ":" separator
DNoClass == Decl(NameBase, <<"app.models.base">>, "id", "int", <<"get">>)
\* the other spellings of the wildcard name
DStar == Decl(<<"*">>, <<"app.models">>, "id", "int", <<"all">>)
DAllLower == Decl(NameLowerAll, <<"app.entities">>, "pk", "str", <<"get">>)

Decls == {DUser, DUserTwin, DLowerUser, DAll, DDigit, DNoClass, DStar, DAllLower}

\* longest `models` list drawn
MaxModels == 2

DeclLists == UNION {[1..n -> Decls] : n \in 0..MaxModels}

\* ModelConfig validation of one item: the three field validators
ModelField(d) ==
    IF ~validate_name(d.name) THEN Raised(<<"model name must start with a letter">>)
    ELSE IF ~validate_import_path(d.import_path)
         THEN Raised(<<"import_path must include both module and class">>)
    ELSE IF ~MethodsField(d.methods).ok THEN Raised(<<"invalid method">>)
    ELSE Returned(ModelConfig(d.name, d.import_path, d.id_field, d.id_type,
                              d.methods, d.personalize_methods))

\* mutant: whole declarations are compared instead of their names
validate_models_WholeDeclarations(v) ==
    LET names == [i \in 1..Len(v) |-> v[i]]
    IN IF Len(names) # Cardinality(Range(names))
       THEN Raised(<<"duplicate model names in configuration">>)
       ELSE Returned(v)

\* GenrepoConfig.validate_models on a list of ModelConfig
validate_models(v) ==
    LET names == [i \in 1..Len(v) |-> v[i].name]
    IN IF Len(names) # Cardinality(Range(names))
       THEN Raised(<<"duplicate model names in configuration">>)
       ELSE Returned(v)

\* the `models` field of GenrepoConfig: every item validated as a ModelConfig,
\* and only then the validate_models validator
ModelsField(items) ==
    LET each == [i \in 1..Len(items) |-> ModelField(items[i])]
        bad == {i \in 1..Len(items) : ~each[i].ok}
    IN IF bad # {} THEN Raised(each[CHOOSE i \in bad : \A j \in bad : i <= j].error)
       ELSE validate_models([i \in 1..Len(items) |-> each[i].value])

\* GenrepoConfig.model_validate({... "models": items}) as in the test
ApplyModelValidate ==
    /\ call.fn = "model_validate"
    /\ ~ret.done
    /\ ret' = ModelsField(call.arg)
    /\ UNCHANGED <<call, machine>>

ERR_MODELS_MISSING ==
    "invalid configuration: missing 'models'. Use 'models: all' for discovery or provide an explicit list under 'models:'."
ERR_MODELS_NONE ==
    "no models configured. Use 'models: all' for discovery or define an explicit list under 'models:'."
ERR_MODELS_INVALID_VALUE ==
    "invalid value for 'models'. Use 'all' or an explicit list of models."
ERR_MODELS_EMPTY ==
    "empty 'models' list. Use 'models: all' for discovery or provide one or more models."
ERR_INVALID_CONFIGURATION == "invalid configuration: {err}"


RECURSIVE LStrip(_)
LStrip(s) == IF s # <<>> /\ Head(s) = " " THEN LStrip(Tail(s)) ELSE s

RECURSIVE RStrip(_)
RStrip(s) ==
    IF s # <<>> /\ s[Len(s)] = " " THEN RStrip(SubSeq(s, 1, Len(s) - 1)) ELSE s

\* str.strip()
Strip(s) == RStrip(LStrip(s))

\* the value of the `models` key as yaml.safe_load returns it: absent (None),
\* a string, another scalar, or a list of items
ModelsAbsent == [type |-> "absent", str |-> <<>>, items |-> <<>>]
ModelsStr(chars) == [type |-> "str", str |-> chars, items |-> <<>>]
ModelsInt == [type |-> "int", str |-> <<>>, items |-> <<>>]
ModelsList(items) == [type |-> "list", str |-> <<>>, items |-> items]

ModelsStrings ==
    { <<"a", "l", "l">>, <<"A", "l", "l">>, <<" ", "a", "l", "l", " ">>,
      <<"n", "o", "n", "e">>, <<"m", "a", "y", "b", "e">> }

\* the documents drawn: the `models` value and generation.mode ("absent" when
\* the document does not set it)
\* pathlib.Path: absolute or relative, with its parts; NoPath is None
Path(abs, parts) == [set |-> TRUE, abs |-> abs, parts |-> parts]
NoPath == [set |-> FALSE, abs |-> FALSE, parts |-> <<>>]
AppModels == Path(FALSE, <<"app", "models">>)

\* a / b
PathJoin(a, b) == IF b.abs THEN b ELSE Path(a.abs, a.parts \o b.parts)

\* the directory the operating system opens for path p in working directory cwd
Absolute(p, cwd) == IF p.abs THEN p ELSE PathJoin(cwd, p)

\* the values a document gives to `orm`: OrmType, one outside it, or no key
OrmType == {ORM_SQLMODEL, ORM_SQLALCHEMY}
OrmValues == OrmType \cup {"absent", "django"}

\* documents that vary the `models` and `generation.mode` keys
ModelsDocuments ==
    {[models |-> f, mode |-> m, orm |-> "absent", async_mode |-> FALSE,
      stub_only |-> FALSE, models_dir |-> NoPath] :
        f \in {ModelsAbsent, ModelsInt}
              \cup {ModelsStr(x) : x \in ModelsStrings}
              \cup {ModelsList(v) : v \in DeclLists},
        m \in {"absent", "standalone", "base", "combined"}}

\* documents that vary the keys TemplateSelector reads
TemplateDocuments ==
    {[models |-> ModelsList(<<DUser>>), mode |-> m, orm |-> o, async_mode |-> a,
      stub_only |-> s, models_dir |-> NoPath] :
        m \in {"standalone", "base", "combined"}, o \in OrmValues,
        a \in BOOLEAN, s \in BOOLEAN}

\* documents that enable discovery, by `models: all` or by a wildcard entry,
\* with no, a relative or an absolute `models_dir`
DiscoveryDocuments ==
    {[models |-> f, mode |-> "standalone", orm |-> "absent", async_mode |-> FALSE,
      stub_only |-> FALSE, models_dir |-> d] :
        f \in {ModelsStr(NameLowerAll), ModelsList(<<DAll>>), ModelsList(<<DAll, DUser>>)},
        d \in {NoPath, Path(FALSE, <<"models">>), Path(TRUE, <<"srv", "models">>)}}

Documents == ModelsDocuments \cup TemplateDocuments \cup DiscoveryDocuments

\* the placeholder list load_config sets for a base-only document
Placeholder == <<Decl(NameAll, <<"app.models">>, "id", "int", <<"none">>)>>

\* load_config, from the parsed document on
load_config(doc) ==
    LET models_field == doc.models
        gen_mode == IF doc.mode = "absent" THEN "standalone" ELSE doc.mode
        mval == LowerAll(Strip(models_field.str))
        discover_all == models_field.type = "str" /\ mval = <<"a", "l", "l">>
        \* GenrepoConfig.model_validate(data): `models` must be a list
        validated ==
            IF models_field.type = "absent" THEN ModelsField(Placeholder)
            ELSE IF discover_all THEN ModelsField(<<>>)
            ELSE IF models_field.type = "list" THEN ModelsField(models_field.items)
            ELSE Raised(<<"Input should be a valid list">>)
        \* orm: OrmType = Field("sqlmodel")
        orm_ok == doc.orm \in OrmType \cup {"absent"}
    IN IF models_field.type = "absent" /\ gen_mode # "base"
       THEN Raised(<<ERR_MODELS_MISSING>>)
       ELSE IF models_field.type = "str" /\ mval = <<"n", "o", "n", "e">>
       THEN Raised(<<ERR_MODELS_NONE>>)
       ELSE IF models_field.type = "str" /\ ~discover_all
       THEN Raised(<<ERR_MODELS_INVALID_VALUE>>)
       ELSE IF models_field.type = "list" /\ Len(models_field.items) = 0
       THEN Raised(<<ERR_MODELS_EMPTY>>)
       ELSE IF ~validated.ok \/ ~orm_ok
       THEN Raised(<<ERR_INVALID_CONFIGURATION>> \o validated.error
                   \o (IF orm_ok THEN <<>>
                       ELSE <<"Input should be 'sqlmodel' or 'sqlalchemy'">>))
       ELSE Returned(
              [orm |-> IF doc.orm = "absent" THEN ORM_SQLMODEL ELSE doc.orm,
               async_mode |-> doc.async_mode, commit_strategy |-> "none",
               models |-> validated.value, discover_all |-> discover_all,
               models_package |-> IF discover_all THEN "app.models" ELSE "",
               models_dir |-> IF discover_all /\ ~doc.models_dir.set
                              THEN AppModels ELSE doc.models_dir,
               allow_missing_models |-> FALSE,
               mode |-> gen_mode, base_filename |-> BaseFilename,
               base_class_name |-> "BaseRepository", overwrite_base |-> FALSE,
               stub_only |-> doc.stub_only])

ApplyLoadConfig ==
    /\ call.fn = "load_config"
    /\ ~ret.done
    /\ ret' = load_config(call.arg)
    /\ UNCHANGED <<call, machine>>

\* the entries a discovery directory can hold
FileUniverse ==
    { <<"f", "o", "o", ".", "p", "y">>,
      <<"F", "o", "o", ".", "p", "y">>,
      <<"u", "s", "e", "r", ".", "p", "y">>,
      <<"_", "_", "i", "n", "i", "t", "_", "_", ".", "p", "y">>,
      <<"f", "o", "o", ".", "t", "x", "t">> }

\* every directory content in every enumeration order
Listings ==
    {l \in UNION {[1..n -> FileUniverse] : n \in 0..Cardinality(FileUniverse)} :
        \A i, j \in 1..Len(l) : i # j => l[i] # l[j]}

\* the validated configurations the resolver is applied to
ResolveConfigs == {c \in Configs : c.mode = "standalone" /\ ~c.overwrite_base}

\* ModelResolver.resolve(cfg, project_root) on its own
ApplyResolve ==
    /\ call.fn = "resolve"
    /\ ~ret.done
    /\ LET r == ResolveIn(call.arg.cfg, call.arg.listing)
       IN ret' = IF r.ok THEN Returned(r.models)
                 ELSE Raised(<<"could not import model">>)
    /\ UNCHANGED <<call, machine>>

\* TemplateSelector(cfg) of a loaded configuration: both template names, as
\* generate_from_config and plan_from_config ask for them
TemplateSelector(c) ==
    [base |-> base_template(c), standalone |-> standalone_template(c)]

ApplyTemplateSelector ==
    /\ call.fn = "TemplateSelector"
    /\ ~ret.done
    /\ ret' = LET loaded == load_config(call.arg)
                  sel == TemplateSelector(loaded.value)
              IN IF ~loaded.ok THEN loaded
                 ELSE IF UNSUPPORTED \in {sel.base, sel.standalone}
                 THEN Raised(<<UNSUPPORTED>>)
                 ELSE Returned(sel)
    /\ UNCHANGED <<call, machine>>

\* models_dir = cfg.models_dir or (project_root / "app/models")
models_dir(c, project_root) ==
    IF c.models_dir.set THEN c.models_dir ELSE PathJoin(project_root, AppModels)

\* base_dir = Path(models_dir), as base_dir.glob opens it in directory cwd
base_dir(c, project_root, cwd) == Absolute(models_dir(c, project_root), cwd)

\* the project roots and working directories of an invocation (absolute)
Directories == {Path(TRUE, <<"srv", "proj">>), Path(TRUE, <<"home">>)}

\* load_config, then the directory ModelResolver.resolve scans
ApplyDiscoveryDir ==
    /\ call.fn = "discovery_dir"
    /\ ~ret.done
    /\ ret' = LET loaded == load_config(call.arg.doc)
              IN IF ~loaded.ok THEN loaded
                 ELSE Returned(base_dir(loaded.value, call.arg.project_root,
                                        call.arg.cwd))
    /\ UNCHANGED <<call, machine>>

\* jinja2.Environment(...): the filters a fresh environment has (built-in ones)
Environment == {"lower", "upper", "default"}

\* the `env` argument: None, or an environment the caller built
NoEnv == [given |-> FALSE, filters |-> {}]
Envs ==
    {NoEnv}
    \cup {[given |-> TRUE, filters |-> Environment \cup extra] :
            extra \in SUBSET {"snake", "pascal", "custom"}}

\* generate_from_config: env = env or Environment(...); then the two filters
generate_env(env) ==
    (IF env.given THEN env.filters ELSE Environment) \cup {"snake", "pascal"}

\* plan_from_config: env = env or Environment(...)
plan_env(env) == IF env.given THEN env.filters ELSE Environment

\* the filters templates can use on the path taken
ApplyEnvironment ==
    /\ call.fn = "environment"
    /\ ~ret.done
    /\ ret' = Returned(IF call.arg.path = "plan" THEN plan_env(call.arg.env)
                       ELSE generate_env(call.arg.env))
    /\ UNCHANGED <<call, machine>>

Calls ==
    {[fn |-> "discovery_dir", arg |-> [doc |-> d, project_root |-> r, cwd |-> w]] :
        d \in DiscoveryDocuments, r \in Directories, w \in Directories}
    \cup {[fn |-> "environment", arg |-> [path |-> p, env |-> e]] :
            p \in {"generate", "plan"}, e \in Envs}
    \cup {[fn |-> "validate_methods", arg |-> v] : v \in TokenLists}
    \cup {[fn |-> "TemplateSelector", arg |-> d] : d \in TemplateDocuments}
    \cup {[fn |-> "model_validate", arg |-> v] : v \in DeclLists}
    \cup {[fn |-> "load_config", arg |-> d] : d \in Documents}
    \cup {[fn |-> "resolve", arg |-> [cfg |-> c, listing |-> l]] :
            c \in ResolveConfigs, l \in Listings}

InitPure ==
    /\ call \in Calls
    /\ ret = NoRet
    /\ cfg = CHOOSE c \in Configs : c.mode = "base"
    /\ fs = EmptyDir
    /\ dirExists = FALSE
    /\ pc = "idle"
    /\ force = FALSE
    /\ fs0 = EmptyDir
    /\ models = <<>>
    /\ idx = 0
    /\ cur = NoCur
    /\ written = <<>>
    /\ targets = <<>>
    /\ resolved = FALSE
    /\ result = "none"
    /\ chained = FALSE
    /\ planOut = NoPlan
    /\ planFs = EmptyDir
    /\ race = NoRace

NextPure ==
    \/ ApplyValidateMethods
    \/ ApplyModelValidate
    \/ ApplyLoadConfig
    \/ ApplyResolve
    \/ ApplyTemplateSelector
    \/ ApplyDiscoveryDir
    \/ ApplyEnvironment

SpecPure == InitPure /\ [][NextPure]_vars

----------------------------------------------------------------------------
(* Two invocations of generate_from_config inside write() on the same path *)

Invocations == {1, 2}

\* the write() calls generate_from_config(c, force=f) makes
WriteCalls(c, f) ==
    (IF c.mode \in {"base", "combined"} THEN {BaseTargetOf[c]} ELSE {})
    \cup (IF c.mode = "base" \/ ~ResolveOf[c].ok THEN {}
          ELSE {ModelTargetsOf[c][f][i] : i \in 1..Len(ResolveOf[c].models)})

\* the configuration c or the same one run in another generation mode
Runs(c) == {d \in Configs : \E m \in {"standalone", "base", "combined"} :
                              d = [c EXCEPT !.mode = m]}

\* a write() call of each invocation, both on one path
RacePairs(c) ==
    {p \in UNION {WriteCalls(c, f) \X WriteCalls(d, g) :
                    f \in BOOLEAN, g \in BOOLEAN, d \in Runs(c)} :
        p[1].path = p[2].path}

\* an invocation about to enter write(path, content, overwrite=...)
Entering(t) == [pc |-> "check", handle |-> "none", call |-> t, outcome |-> "none"]

InitRace ==
    /\ cfg \in Configs
    /\ \E p \in RacePairs(cfg) :
          /\ race = <<Entering(p[1]), Entering(p[2])>>
          /\ fs \in {EmptyDir, write_text(EmptyDir, p[1].path, EDITED)}
    /\ fs0 = fs
    /\ dirExists = TRUE
    /\ pc = "idle"
    /\ force = FALSE
    /\ models = <<>>
    /\ idx = 0
    /\ cur = NoCur
    /\ written = <<>>
    /\ targets = <<>>
    /\ resolved = FALSE
    /\ result = "none"
    /\ chained = FALSE
    /\ planOut = NoPlan
    /\ planFs = EmptyDir
    /\ call = NoCall
    /\ ret = NoRet

\* what the steps of write() leave alone
outside == <<call, ret, cfg, dirExists, pc, force, fs0, models, idx, cur, written,
             targets, resolved, result, chained, planOut, planFs>>

\* if path.exists() and not overwrite: return False
RaceCheck(i) ==
    /\ race[i].pc = "check"
    /\ race' = [race EXCEPT ![i] =
                  IF WriteSkips(fs, race[i].call)
                  THEN [@ EXCEPT !.pc = "done", !.outcome = "skipped"]
                  ELSE [@ EXCEPT !.pc = "open"]]
    /\ UNCHANGED <<fs, outside>>

\* tmp.write_text(content): open(tmp, "w") creates the file or truncates it
RaceOpen(i) ==
    /\ race[i].pc = "open"
    /\ fs' = write_text(fs, TmpPath(race[i].call.path), <<>>)
    /\ race' = [race EXCEPT ![i] = [@ EXCEPT !.pc = "write", !.handle = "tmp"]]
    /\ UNCHANGED outside

\* data written at the start of a file that holds `old`
Overwritten(old, data) == data \o SubSeq(old, Len(data) + 1, Len(old))

\* the name under which the file an invocation has open is found
HandleName(i) ==
    IF race[i].handle = "tmp" THEN TmpPath(race[i].call.path) ELSE race[i].call.path

\* tmp.write_text(content): the content goes to the open file and it is closed
RaceWrite(i) ==
    /\ race[i].pc = "write"
    /\ fs' = [fs EXCEPT ![HandleName(i)] = Overwritten(@, race[i].call.content)]
    /\ race' = [race EXCEPT ![i] = [@ EXCEPT !.pc = "replace", !.handle = "none"]]
    /\ UNCHANGED outside

\* tmp.replace(path): FileNotFoundError when tmp is gone, else the file named
\* tmp becomes the file named path, for whoever has it open too
RaceReplace(i) ==
    /\ race[i].pc = "replace"
    /\ IF ~exists(fs, TmpPath(race[i].call.path))
       THEN /\ race' = [race EXCEPT ![i] = [@ EXCEPT !.pc = "done", !.outcome = "error"]]
            /\ UNCHANGED fs
       ELSE /\ fs' = replace(fs, TmpPath(race[i].call.path), race[i].call.path)
            /\ race' = [j \in Invocations |->
                          IF j = i
                          THEN [race[j] EXCEPT !.pc = "done", !.outcome = "written"]
                          ELSE IF race[j].handle = "tmp"
                          THEN [race[j] EXCEPT !.handle = "target"]
                          ELSE race[j]]
    /\ UNCHANGED outside

NextRace ==
    \E i \in Invocations :
        \/ RaceCheck(i)
        \/ RaceOpen(i)
        \/ RaceWrite(i)
        \/ RaceReplace(i)

SpecRace == InitRace /\ [][NextRace]_vars

----------------------------------------------------------------------------

(* Properties *)

PathsOf(files) == [i \in 1..Len(files) |-> files[i].path]

Completed == pc = "idle" /\ result = "ok"

\* the plan in planOut was computed on the state the last invocation started
\* from, with the same force value
PlanBeforeRun == planOut.valid /\ planOut.ok /\ planFs = fs0 /\ planOut.force = force

\* C1: plan/execute parity. When generate_from_config has run to completion
\* on the state a plan was computed on (same configuration, same force), the
\* paths the plan marks would_write, in plan order, are exactly the returned
\* written list.
C1_PlanExecuteParity ==
    (Completed /\ PlanBeforeRun) => PathsOf(to_write(planOut.files)) = written

\* C2: the executor gets past the early return of write() (writes the
\* temporary file and renames it over the target, reporting the path as
\* written) only when the classify decision for the target is 'write'.
C2_WriteOnlyWhenClassifyWrites ==
    (pc \in {"replace_base", "replace_model"}) => Classify(fs, cur).would_write

\* the write() calls an invocation makes, as plan_from_config lists them
C3_PlanTargets(c, f) ==
    (IF c.mode \in {"base", "combined"} THEN <<BaseTargetOf[c]>> ELSE <<>>)
    \o (IF c.mode = "base" THEN <<>> ELSE ModelTargetsOf[c][f])

C3_Row(fsys, t, p) ==
    /\ p.path = t.path
    /\ ~exists(fsys, t.path) => (p.would_write /\ p.reason = "create" /\ ~p.exists)
    /\ (exists(fsys, t.path) /\ ~t.overwrite)
         => (~p.would_write /\ p.reason = "exists-no-overwrite" /\ p.exists)
    /\ (exists(fsys, t.path) /\ t.overwrite
          /\ (fsys[t.path] = UNREADABLE \/ fsys[t.path] # t.content))
         => (p.would_write /\ p.reason = "overwrite" /\ p.exists)
    /\ (exists(fsys, t.path) /\ t.overwrite
          /\ fsys[t.path] # UNREADABLE /\ fsys[t.path] = t.content)
         => (~p.would_write /\ p.reason = "up-to-date" /\ p.exists)

\* C3: every entry of a plan is the decision of the classify table for the
\* state of its path and its overwrite flag: absent -> write/create; exists
\* and no overwrite -> skip/exists-no-overwrite; exists, overwrite and
\* unreadable or different -> write/overwrite; exists, overwrite and
\* identical -> skip/up-to-date.
C3_ClassifyTable ==
    (planOut.valid /\ planOut.ok) =>
        /\ Len(planOut.files) = Len(C3_PlanTargets(cfg, planOut.force))
        /\ \A i \in 1..Len(planOut.files) :
              C3_Row(planFs, C3_PlanTargets(cfg, planOut.force)[i], planOut.files[i])

\* a plan holding an unreadable file classified write/overwrite, an identical
\* one classified skip/up-to-date and one classified create
C3_Witness ==
    /\ planOut.valid /\ planOut.ok
    /\ \E i, j \in 1..Len(planOut.files) :
          /\ planOut.files[i].reason = "overwrite"
          /\ planFs[planOut.files[i].path] = UNREADABLE
          /\ planOut.files[j].reason = "up-to-date"

\* the per-model target paths of the configuration, in resolved-list order
ModelPaths == PathsOf(ModelTargetsOf[cfg][FALSE])

GenerateRunning == pc # "idle"

\* C4: create-once. In combined mode no step of generate_from_config, for any
\* force and overwrite_base, changes the content of a per-model stub file
\* that exists, and the planner reports an existing stub as skip with reason
\* 'exists-no-overwrite'.
C4_CreateOnce ==
    [][ cfg.mode = "combined" =>
          /\ GenerateRunning =>
                \A i \in 1..Len(ModelPaths) :
                   exists(fs, ModelPaths[i])
                     => (exists(fs', ModelPaths[i]) /\ fs'[ModelPaths[i]] = fs[ModelPaths[i]])
          /\ (planOut.valid /\ planOut.ok) =>
                \A i \in 1..Len(ModelPaths) :
                   exists(planFs, ModelPaths[i])
                     => (~planOut.files[i + 1].would_write
                         /\ planOut.files[i + 1].reason = "exists-no-overwrite") ]_vars

\* C5: for the base file (base-only and combined modes) overwrite is permitted
\* iff overwrite_base is set, whatever force is: after an invocation an
\* existing base file holds the rendered content when overwrite_base is set
\* and its previous content when it is not; the plan's entry for the base
\* file carries overwrite = overwrite_base.
C5_BaseOverwritePolicy ==
    /\ (cfg.mode \in {"base", "combined"} /\ pc = "idle" /\ result # "none"
          /\ exists(fs0, cfg.base_filename))
         => /\ exists(fs, cfg.base_filename)
            /\ fs[cfg.base_filename] =
                 IF cfg.overwrite_base THEN RenderBase(cfg) ELSE fs0[cfg.base_filename]
    /\ (cfg.mode \in {"base", "combined"} /\ planOut.valid /\ planOut.ok)
         => /\ planOut.files[1].path = cfg.base_filename
            /\ planOut.files[1].overwrite = cfg.overwrite_base

\* an edited base file overwritten by a run without force
C5_Witness ==
    /\ Completed /\ cfg.mode = "combined" /\ cfg.overwrite_base /\ ~force
    /\ exists(fs0, cfg.base_filename) /\ fs0[cfg.base_filename] = EDITED
    /\ fs[cfg.base_filename] = RenderBase(cfg)

\* C6: in standalone mode an invocation with force = false leaves every
\* per-model file that existed when it started unchanged, and one started
\* right after a successful invocation returns an empty written list.
C6_StandaloneNoForceKeepsFiles ==
    /\ (cfg.mode = "standalone" /\ ~force /\ (pc # "idle" \/ result # "none"))
         => \A i \in 1..Len(ModelPaths) :
               exists(fs0, ModelPaths[i])
                 => (exists(fs, ModelPaths[i]) /\ fs[ModelPaths[i]] = fs0[ModelPaths[i]])
    /\ (cfg.mode = "standalone" /\ Completed /\ chained /\ ~force) => written = <<>>

\* a second run without force that kept a manually edited file and wrote nothing
C6_Witness ==
    /\ cfg.mode = "standalone" /\ Completed /\ chained /\ ~force /\ written = <<>>
    /\ \E i \in 1..Len(ModelPaths) :
          exists(fs, ModelPaths[i]) /\ fs[ModelPaths[i]] = EDITED

\* C7: in standalone mode, after an invocation with force = true, the target
\* file of every resolved model holds exactly the content rendered for that
\* model.
C7_ForceRestores ==
    (cfg.mode = "standalone" /\ Completed /\ force)
      => \A i \in 1..Len(models) :
            /\ exists(fs, RepoFileName(models[i]))
            /\ fs[RepoFileName(models[i])] = ModelTarget(cfg, models[i], TRUE).content

\* C8: a plan step (plan_from_config behind --dry-run / --check) leaves the
\* output directory as it was: no directory, no package marker, no temporary
\* file created, no file modified.
C8_PlanIsSideEffectFree ==
    [][ (pc = "idle" /\ pc' = "idle" /\ planOut'.valid
           /\ <<planOut, planFs>>' # <<planOut, planFs>>)
          => (fs' = fs /\ dirExists' = dirExists) ]_vars

\* a plan with pending writes computed in a project whose output directory
\* still does not exist
C8_Witness ==
    /\ planOut.valid /\ planOut.ok /\ to_write(planOut.files) # <<>>
    /\ ~dirExists /\ fs = EmptyDir

\* C9: a plan computed right after a successful invocation, with the same
\* configuration and force, has no would_write entry, so --check exits 0; and
\* --check exits 1 exactly when the plan has a would_write entry.
C9_CheckConverges ==
    /\ (Completed /\ planOut.valid /\ planFs = fs /\ planOut.force = force)
         => /\ planOut.ok
            /\ to_write(planOut.files) = <<>>
            /\ planOut.check => planOut.exit = 0
    /\ (planOut.valid /\ planOut.ok /\ planOut.check)
         => (planOut.exit = 1 <=> to_write(planOut.files) # <<>>)

\* C10: mode dispatch. Base-only: one target, the base file, and the resolver
\* is not invoked. Standalone: one target per resolved model, in order, never
\* the base file. Combined: the base file, then one stub per resolved model,
\* in order. The same holds for the entries of a plan.
C10_ModeDispatch ==
    /\ Completed =>
         /\ cfg.mode = "base" =>
               (~resolved /\ targets = <<BaseTarget(cfg)>>)
         /\ cfg.mode = "standalone" =>
               /\ resolved /\ models = resolve(cfg).models
               /\ Len(targets) = Len(models)
               /\ \A i \in 1..Len(models) :
                     /\ targets[i].kind = "model"
                     /\ targets[i].path = RepoFileName(models[i])
                     /\ targets[i].content = RenderRepo(cfg, models[i], standalone_template(cfg))
         /\ cfg.mode = "combined" =>
               /\ resolved /\ models = resolve(cfg).models
               /\ Len(targets) = 1 + Len(models)
               /\ targets[1] = BaseTarget(cfg)
               /\ \A i \in 1..Len(models) :
                     /\ targets[i + 1].kind = "model"
                     /\ targets[i + 1].path = RepoFileName(models[i])
                     /\ targets[i + 1].content = RenderStub(cfg, models[i])
    /\ planOut.valid =>
         /\ cfg.mode = "base" =>
               (planOut.ok /\ PathsOf(planOut.files) = <<cfg.base_filename>>)
         /\ (cfg.mode = "standalone" /\ planOut.ok) =>
               PathsOf(planOut.files) = ModelPaths
         /\ (cfg.mode = "combined" /\ planOut.ok) =>
               PathsOf(planOut.files) = <<cfg.base_filename>> \o ModelPaths

\* a combined-mode run and plan over the base file and two resolved models
C10_Witness ==
    /\ Completed /\ cfg.mode = "combined" /\ Len(models) = 2 /\ Len(targets) = 3
    /\ planOut.valid /\ Len(planOut.files) = 3

----------------------------------------------------------------------------
(* Properties of the write engine under interruptions and failures *)

\* the write() calls generation of the configuration can make, for either force
AllTargets ==
    (IF cfg.mode \in {"base", "combined"} THEN {BaseTargetOf[cfg]} ELSE {})
    \cup (IF cfg.mode = "base" THEN {}
          ELSE {ModelTargetsOf[cfg][f][i] :
                  f \in BOOLEAN, i \in 1..Len(ResolveOf[cfg].models)})

\* the complete renderings generation can put at a path
RenderedAt(path) == {t.content : t \in {u \in AllTargets : u.path = path}}

\* an invocation is running or has ended, and the directory was not edited since
InvocationSeen == pc # "idle" \/ result # "none"

SameAsBefore(path) ==
    IF exists(fs0, path) THEN exists(fs, path) /\ fs[path] = fs0[path]
    ELSE ~exists(fs, path)

\* C11: at every step of an invocation, and after an interruption or a failure
\* at any step, each target path is either as it was before the invocation
\* (same content, or absent) or holds a complete rendering; a partially
\* written file is never visible at a target path.
C11_AtomicWrite ==
    InvocationSeen =>
        \A path \in TargetPaths(cfg) :
            SameAsBefore(path) \/ (exists(fs, path) /\ fs[path] \in RenderedAt(path))

\* an interrupted invocation left a partial temporary file next to an
\* untouched, hand-edited target
C11_Witness ==
    /\ result = "interrupted"
    /\ \E path \in TargetPaths(cfg) :
          /\ exists(fs, TmpPath(path))
          /\ fs[TmpPath(path)] \notin RenderedAt(path)
          /\ exists(fs, path) /\ fs[path] = EDITED /\ fs0[path] = EDITED

\* the contents the invocation's write() calls carried for a path
CalledWith(path) ==
    {targets[i].content : i \in {j \in 1..Len(targets) : targets[j].path = path}}

\* C12: when a write of the batch fails with a file-system error the invocation
\* ends with the error; the targets it had written keep their new content (no
\* rollback) and every other target is as it was before the invocation.
C12_ErrorAbortsNoRollback ==
    result = "error" =>
        /\ pc = "idle"
        /\ \A path \in TargetPaths(cfg) :
              IF path \in Range(written)
              THEN exists(fs, path) /\ fs[path] \in CalledWith(path)
              ELSE SameAsBefore(path)

\* the second target of a batch failed: the first one, created by this
\* invocation, is in place and the failed one is absent
C12_Witness ==
    /\ result = "error"
    /\ Len(written) >= 1
    /\ ~exists(fs0, written[1]) /\ exists(fs, written[1])
    /\ Len(targets) = Len(written) + 1
    /\ targets[Len(targets)].path \notin Range(written)
    /\ ~exists(fs, targets[Len(targets)].path)

\* the invocation is past ensure_package(out_dir)
PastEnsurePackage ==
    pc \in {"write_base", "replace_base", "resolve", "write_model", "replace_model"}

\* a temporary or final base / per-model file was produced by the invocation
SomethingWritten ==
    \/ written # <<>>
    \/ \E path \in TargetPaths(cfg) :
          exists(fs, TmpPath(path)) /\ ~(exists(fs0, TmpPath(path))
                                         /\ fs0[TmpPath(path)] = fs[TmpPath(path)])

\* C13: the package marker exists from the end of ensure_package on, hence
\* before the first base or per-model file is written; a marker that existed
\* before the invocation keeps its content, one that did not is created empty.
C13_PackageMarker ==
    InvocationSeen =>
        /\ (PastEnsurePackage \/ SomethingWritten) => exists(fs, InitFile)
        /\ exists(fs0, InitFile) => exists(fs, InitFile) /\ fs[InitFile] = fs0[InitFile]
        /\ (~exists(fs0, InitFile) /\ exists(fs, InitFile)) => fs[InitFile] = <<>>

\* a completed invocation wrote files next to a hand-edited, non-empty marker
C13_Witness ==
    /\ Completed
    /\ written # <<>>
    /\ exists(fs0, InitFile) /\ fs0[InitFile] = EDITED
    /\ fs[InitFile] = EDITED

----------------------------------------------------------------------------
(* Properties of ModelConfig.validate_methods *)

NoDuplicates(s) == Cardinality(Range(s)) = Len(s)

Dependent == {"get_or_raise", "delete_by_id"}

\* validate_methods returned a list for a list with a dependent operation and
\* without "get"
NeedsGet ==
    /\ call.fn = "validate_methods"
    /\ ret.done /\ ret.ok
    /\ Range(call.arg) \cap Dependent # {}
    /\ "get" \notin Range(call.arg)

\* "get" is in the list at a position before every dependent operation
GetComesFirst(s) ==
    /\ "get" \in Range(s)
    /\ \A i \in 1..Len(s) : s[i] \in Dependent => \E j \in 1..(i - 1) : s[j] = "get"

\* the operations of v are all in s, in the order in which they first occur
\* in v
KeepsOrder(v, s) ==
    /\ Range(v) \ {"all", "none"} \subseteq Range(s)
    /\ \A i, j \in 1..Len(s) :
          (i < j /\ s[i] \in Range(v) /\ s[j] \in Range(v))
              => IndexOf(v, s[i], 1) < IndexOf(v, s[j], 1)

\* C14 as stated: for every token list with "get_or_raise" or "delete_by_id"
\* and without "get", the normalized list has "get" before them, keeps the
\* other operations in their original relative order and has no duplicates.
C14_GetPrerequisite ==
    NeedsGet =>
        /\ GetComesFirst(ret.value)
        /\ KeepsOrder(call.arg, ret.value)
        /\ NoDuplicates(ret.value)

\* C14 amended: for every such list without "none", the normalized list has
\* "get" before the dependent operations and no duplicates; without "all" it is
\* "get" followed by the listed operations in order of first occurrence, with
\* "all" it is the vocabulary in its canonical order.
C14_GetPrerequisiteAmended ==
    (NeedsGet /\ "none" \notin Range(call.arg)) =>
        /\ GetComesFirst(ret.value)
        /\ NoDuplicates(ret.value)
        /\ IF "all" \in Range(call.arg)
           THEN ret.value = CRUD_METHODS
           ELSE /\ ret.value[1] = "get"
                /\ Range(ret.value) = Range(call.arg) \cup {"get"}
                /\ KeepsOrder(call.arg, ret.value)

\* both dependent operations, one of them repeated, with "get" inserted
C14_Witness ==
    /\ NeedsGet
    /\ call.arg = <<"delete_by_id", "get_or_raise", "delete_by_id">>
    /\ ret.value = <<"get", "delete_by_id", "get_or_raise">>

\* C15: [all] normalizes to the ten-operation vocabulary (as a set, without
\* duplicates), [none] to the empty list, and no normalized list contains a
\* sentinel or a token outside the vocabulary.
C15_SentinelNormalization ==
    (call.fn = "validate_methods" /\ ret.done /\ ret.ok) =>
        /\ call.arg = <<"all">> =>
              /\ Range(ret.value) = Range(CRUD_METHODS)
              /\ Len(ret.value) = 10
        /\ call.arg = <<"none">> => ret.value = <<>>
        /\ Range(ret.value) \subseteq Range(CRUD_METHODS)

\* [all] has been normalized
C15_Witness ==
    /\ call.fn = "validate_methods"
    /\ call.arg = <<"all">>
    /\ ret.done /\ ret.ok
    /\ Len(ret.value) = 10

----------------------------------------------------------------------------
(* Properties of configuration validation and loading *)

SameNameTwice(items) ==
    \E i, j \in 1..Len(items) : i # j /\ items[i].name = items[j].name

\* C16: a configuration in which two declarations have the same name (compared
\* case-sensitively) is never accepted; when its declarations pass their own
\* validation, which runs first, it fails with the duplicate-names error, and
\* that error is raised for no other configuration.
C16_DuplicateNamesRejected ==
    (call.fn = "model_validate" /\ ret.done) =>
        /\ SameNameTwice(call.arg) =>
              /\ ~ret.ok
              /\ (\A i \in 1..Len(call.arg) : ModelField(call.arg[i]).ok)
                    => "duplicate model names in configuration" \in Range(ret.error)
        /\ "duplicate model names in configuration" \in Range(ret.error)
              => SameNameTwice(call.arg)

\* two declarations named User with different fields were rejected as
\* duplicates
C16_Witness ==
    /\ call.fn = "model_validate"
    /\ call.arg = <<DUser, DUserTwin>>
    /\ ret.done /\ ~ret.ok
    /\ ret.error = <<"duplicate model names in configuration">>

\* the `models` items of the document pass validation as a list
ValidList(f) == f.type = "list" /\ f.items # <<>> /\ ModelsField(f.items).ok

FailsWith(error) == ~ret.ok /\ error \in Range(ret.error)

\* C17: load_config maps the `models` value to its outcome: a non-empty list is
\* used as it is; the string "all" sets discover_all and clears the list;
\* "none" fails with the no-models error; an empty list with the empty-list
\* error; any other scalar with the invalid-value error; an absent key with
\* the missing-models error, except in base mode where loading succeeds (the
\* other keys of the document being valid).
C17_ModelsFieldMapping ==
    (call.fn = "load_config" /\ ret.done /\ call.arg.orm \in OrmType \cup {"absent"}) =>
        LET f == call.arg.models
            word == LowerAll(Strip(f.str))
            scalar == f.type \in {"str", "int"}
        IN /\ ValidList(f) =>
                 /\ ret.ok /\ ~ret.value.discover_all
                 /\ ret.value.models = ModelsField(f.items).value
           /\ (f.type = "str" /\ word = <<"a", "l", "l">>) =>
                 ret.ok /\ ret.value.discover_all /\ ret.value.models = <<>>
           /\ (f.type = "str" /\ word = <<"n", "o", "n", "e">>) =>
                 FailsWith(ERR_MODELS_NONE)
           /\ (f.type = "list" /\ f.items = <<>>) => FailsWith(ERR_MODELS_EMPTY)
           /\ (scalar /\ word \notin {<<"a", "l", "l">>, <<"n", "o", "n", "e">>}) =>
                 FailsWith(ERR_MODELS_INVALID_VALUE)
           /\ f.type = "absent" =>
                 IF call.arg.mode = "base" THEN ret.ok
                 ELSE FailsWith(ERR_MODELS_MISSING)

----------------------------------------------------------------------------
(* Properties of ModelResolver.resolve *)

\* resolve returned a list
Resolved == call.fn = "resolve" /\ ret.done /\ ret.ok

\* the declarations of the configuration other than wildcard entries
ExplicitOf(c) == SelectSeq(c.models, LAMBDA m : ~IsWildcardName(m.name))

ExplicitNames(c) == {ExplicitOf(c)[i].name : i \in 1..Len(ExplicitOf(c))}

Discovering(c) ==
    c.discover_all \/ \E i \in 1..Len(c.models) : IsWildcardName(c.models[i].name)

\* the source unit a synthesized declaration <pkg>.<stem>:<Class> comes from
FileOf(m) == SubSeq(m.import_path, 3, IndexOf(m.import_path, ":", 1) - 1) \o DotPy

StemOfFile(f) == SubSeq(f, 1, Len(f) - Len(DotPy))

\* the source units of a directory content: *.py not starting with "__"
Units(listing) ==
    {f \in Range(listing) : EndsWith(f, DotPy) /\ ~StartsWith(f, <<"_", "_">>)}

\* C18: the resolved list is the explicit declarations in configuration order,
\* then one declaration per discovered unit, in ascending order of file name;
\* so it is the same for every enumeration order of the same directory.
C18_ResolvedOrdering ==
    Resolved =>
        LET c == call.arg.cfg
            n == Len(ExplicitOf(c))
            r == ret.value
            found == (n + 1)..Len(r)
        IN /\ Len(r) >= n
           /\ SubSeq(r, 1, n) = ExplicitOf(c)
           /\ IF ~Discovering(c) THEN Len(r) = n
              ELSE /\ {FileOf(r[i]) : i \in found}
                        = {f \in Units(call.arg.listing) :
                              to_pascal(StemOfFile(f)) \notin ExplicitNames(c)}
                   /\ \A i \in found : r[i].name = to_pascal(StemOfFile(FileOf(r[i])))
                   /\ \A i, j \in found :
                         i < j => StrLess(FileOf(r[i]), FileOf(r[j]))

\* a directory enumerated as user.py, foo.py resolved to Foo, User
C18_Witness ==
    /\ Resolved
    /\ call.arg.cfg.discover_all
    /\ call.arg.listing = << <<"u", "s", "e", "r", ".", "p", "y">>,
                             <<"f", "o", "o", ".", "p", "y">> >>
    /\ Len(ret.value) = 2
    /\ ret.value[1].name = <<"F", "o", "o">>
    /\ ret.value[2].name = NameUser

\* C19: when discovery is on and a unit derives the name of an explicit
\* declaration, no declaration is synthesized for that unit and the resolved
\* list has exactly one entry of that name, the explicit declaration itself.
C19_ExplicitWins ==
    (Resolved /\ Discovering(call.arg.cfg)) =>
        LET c == call.arg.cfg
            r == ret.value
        IN \A k \in 1..Len(ExplicitOf(c)) :
              LET e == ExplicitOf(c)[k]
              IN \A f \in Units(call.arg.listing) :
                    to_pascal(StemOfFile(f)) = e.name =>
                       /\ \A i \in (Len(ExplicitOf(c)) + 1)..Len(r) : FileOf(r[i]) # f
                       /\ Cardinality({i \in 1..Len(r) : r[i].name = e.name}) = 1
                       /\ \E i \in 1..Len(r) : r[i] = e

\* user.py was found next to the explicit User, which is the only entry
C19_Witness ==
    /\ Resolved
    /\ call.arg.cfg.models = <<MAll, MUser>>
    /\ call.arg.listing = << <<"u", "s", "e", "r", ".", "p", "y">> >>
    /\ ret.value = <<MUser>>

\* C20: no two declarations of a resolved list have the same name.
C20_ResolvedNamesDistinct ==
    Resolved =>
        \A i, j \in 1..Len(ret.value) :
            i # j => ret.value[i].name # ret.value[j].name

\* the configuration load_config returns for the document of the call
LoadedCfg == load_config(call.arg).value

SelectorCalled == call.fn = "TemplateSelector" /\ ret.done

\* C21: for every configuration load_config accepts, TemplateSelector returns
\* the base stub or one of the four base templates by (orm, async_mode), and
\* the standalone stub or one of the two standalone templates by orm alone,
\* whatever async_mode is; it never raises the unsupported-ORM error.
C21_TemplateSelection ==
    (SelectorCalled /\ load_config(call.arg).ok) =>
        /\ ret.ok
        /\ ret.value.base =
             (IF LoadedCfg.stub_only THEN TPL_BASE_STUB
              ELSE CASE <<LoadedCfg.orm, LoadedCfg.async_mode>> = <<ORM_SQLMODEL, FALSE>>
                          -> TPL_BASE_SQLMODEL_SYNC
                     [] <<LoadedCfg.orm, LoadedCfg.async_mode>> = <<ORM_SQLMODEL, TRUE>>
                          -> TPL_BASE_SQLMODEL_ASYNC
                     [] <<LoadedCfg.orm, LoadedCfg.async_mode>> = <<ORM_SQLALCHEMY, FALSE>>
                          -> TPL_BASE_SQLALCHEMY_SYNC
                     [] <<LoadedCfg.orm, LoadedCfg.async_mode>> = <<ORM_SQLALCHEMY, TRUE>>
                          -> TPL_BASE_SQLALCHEMY_ASYNC)
        /\ ret.value.standalone =
             (IF LoadedCfg.stub_only THEN TPL_STANDALONE_STUB
              ELSE CASE LoadedCfg.orm = ORM_SQLMODEL -> TPL_STANDALONE_SQLMODEL
                     [] LoadedCfg.orm = ORM_SQLALCHEMY -> TPL_STANDALONE_SQLALCHEMY)
        /\ ret.value.standalone =
             standalone_template([LoadedCfg EXCEPT !.async_mode = ~@])

C21_Witness ==
    /\ SelectorCalled
    /\ ret.ok
    /\ call.arg.orm = ORM_SQLALCHEMY
    /\ call.arg.async_mode
    /\ ~call.arg.stub_only
    /\ ret.value.base = TPL_BASE_SQLALCHEMY_ASYNC
    /\ ret.value.standalone = TPL_STANDALONE_SQLALCHEMY

\* C22: target paths are pairwise distinct. No two write() calls of one
\* invocation name the same path (so no per-model path equals another one or,
\* in combined mode, the base file path), and no plan lists a path twice.
C22_TargetPathsDistinct ==
    /\ NoDuplicates(PathsOf(targets))
    /\ planOut.valid => NoDuplicates(PathsOf(planOut.files))

\* the invocation ended because ModelResolver.resolve raised
ResolutionFailed ==
    pc = "idle" /\ result = "error" /\ resolved /\ ~ResolveOf[cfg].ok

\* C23: when resolution raises the model-not-importable error, the invocation
\* has created or modified no base file and no per-model file, in standalone
\* and in combined mode alike.
C23_NoOutputOnResolutionError ==
    ResolutionFailed =>
        /\ written = <<>>
        /\ \A path \in TargetPaths(cfg) \cup {cfg.base_filename} : SameAsBefore(path)

\* load_config returned a configuration for the document of the call
Loaded == call.fn = "load_config" /\ ret.done /\ ret.ok

\* "namespace:ClassName": a separator with a non-empty part on both sides
HasClassForm(ip) ==
    /\ ":" \in Range(ip)
    /\ SplitImport(ip)[1] # <<>>
    /\ SplitImport(ip)[2] # <<>>

\* C24: an import locator without separator is accepted only on a wildcard
\* declaration; every non-wildcard declaration of a loaded configuration has
\* the form namespace:ClassName.
C24_LocatorForm ==
    Loaded =>
        \A i \in 1..Len(ret.value.models) :
            ~IsWildcardName(ret.value.models[i].name)
                => HasClassForm(ret.value.models[i].import_path)

\* the declarations of the call with every name "*" spelled "All"
StarAsAll(v) ==
    [i \in 1..Len(v) |->
        IF v[i].name = <<"*">> THEN [v[i] EXCEPT !.name = NameAll] ELSE v[i]]

\* C27: a declaration named "*" is accepted by validation like one named "all":
\* a `models` list that validates with its "*" entries spelled "All" validates
\* as written.
C27_StarAccepted ==
    (call.fn = "model_validate" /\ ret.done /\ ModelsField(StarAsAll(call.arg)).ok)
        => ret.ok

\* the positions of the wildcard declarations of a `models` list
Wildcards(ms) == {i \in 1..Len(ms) : IsWildcardName(ms[i].name)}

\* C28: every accepted configuration holds at most one wildcard declaration (a
\* name that is "all" or "*" whatever its case), so the resolver never drops
\* the defaults of a wildcard in favour of another one.
C28_AtMostOneWildcard ==
    Loaded =>
        /\ Cardinality(Wildcards(ret.value.models)) <= 1
        /\ \A i \in Wildcards(ret.value.models) :
              LastWildcard(ret.value.models) = <<ret.value.models[i]>>

\* C25: the discovery directory is taken relative to the project root and does
\* not depend on the working directory: a relative `models_dir` is joined to
\* the project root, and without `models_dir` both `models: all` and a
\* wildcard entry scan <project_root>/app/models.
C25_DiscoveryDirectory ==
    (call.fn = "discovery_dir" /\ ret.done /\ ret.ok) =>
        ret.value =
            (IF ~call.arg.doc.models_dir.set
             THEN PathJoin(call.arg.project_root, AppModels)
             ELSE IF call.arg.doc.models_dir.abs THEN call.arg.doc.models_dir
             ELSE PathJoin(call.arg.project_root, call.arg.doc.models_dir))

\* C26: the snake and pascal filters are available on both paths: the
\* environment plan_from_config renders with has the filters the environment
\* of generate_from_config has, for the same `env` argument.
C26_FiltersOnBothPaths ==
    (call.fn = "environment" /\ ret.done) =>
        /\ {"snake", "pascal"} \subseteq ret.value
        /\ ret.value = generate_env(call.arg.env)

ReasonsOf(files) == {files[i].reason : i \in 1..Len(files)}

\* C29: every FilePlan entry of a plan is consistent: its reason is "create"
\* exactly when the file does not exist; it would be written exactly when the
\* reason is "create" or "overwrite"; the reasons "overwrite" and "up-to-date"
\* come with overwrite set, "exists-no-overwrite" with an existing file and
\* overwrite unset; and no entry is in both to_write and up_to_date, which are
\* sub-lists of the plan.
C29_FilePlanConsistent ==
    planOut.valid =>
        /\ \A i \in 1..Len(planOut.files) :
              LET f == planOut.files[i]
              IN /\ f.reason \in {"create", "overwrite", "up-to-date",
                                  "exists-no-overwrite"}
                 /\ (f.reason = "create") <=> ~f.exists
                 /\ f.would_write <=> f.reason \in {"create", "overwrite"}
                 /\ f.reason \in {"overwrite", "up-to-date"} => f.overwrite
                 /\ f.reason = "exists-no-overwrite" => f.exists /\ ~f.overwrite
        /\ Range(to_write(planOut.files)) \cap Range(up_to_date(planOut.files)) = {}
        /\ Range(to_write(planOut.files)) \cup Range(up_to_date(planOut.files))
              \subseteq Range(planOut.files)
        /\ Len(to_write(planOut.files)) + Len(up_to_date(planOut.files))
              <= Len(planOut.files)

\* a plan that holds both entries to write and up-to-date entries
C29_Witness ==
    /\ planOut.valid /\ planOut.ok
    /\ Cardinality(ReasonsOf(planOut.files)) >= 2
    /\ "up-to-date" \in ReasonsOf(planOut.files)
    /\ to_write(planOut.files) # <<>>
    /\ up_to_date(planOut.files) # <<>>

\* the path both invocations write
RacePath == race[1].call.path

\* C30: with two invocations writing the same target concurrently, in every
\* interleaving of their steps the target holds its previous content or the
\* complete content of one of the two: nothing partial or mixed is ever
\* renamed into place through the shared temporary file.
C30_ConcurrentWritesAtomic ==
    race # NoRace =>
        \/ SameAsBefore(RacePath)
        \/ /\ exists(fs, RacePath)
           /\ fs[RacePath] \in {race[1].call.content, race[2].call.content}

====
